---- MODULE Spec2Model ----
(***************************************************************************)
(* Model of Ingestion.py: the paginated fetch with a single 429 retry      *)
(* (fetch_page), the row normaliser (transform_rows_to_df), the cleaner    *)
(* (clean_df), the two append-only loaders and the driver loop (main).     *)
(*                                                                         *)
(* Text is a sequence of one-character strings, so that trimming and       *)
(* upper-casing are computed and not looked up.  A cell is a record        *)
(* [k, s]: k is the kind of value ("str" text, "none" Python None / SQL    *)
(* NULL, "nan" float NaN, "ts" a parsed Timestamp, "nat" NaT) and s its    *)
(* text (empty for the missing kinds).                                     *)
(***************************************************************************)
EXTENDS Integers, Sequences, FiniteSets, TLC

\* ------------------------------------------------------------------ bounds
\* largest page_size the driver is started with
MaxPageSize == 2
\* largest max_records the driver is started with
MaxMaxRecords == 5
\* largest number of records the API puts in one response
MaxPageLen == 2
\* largest number of rows of a batch handed to clean_df on its own
MaxBatchLen == 2
\* largest number of fetch_page calls of one run that the API rate-limits
\* on their first request
MaxLimitedCalls == 1

\* --------------------------------------------------------------- constants
KEEP_COLS ==
  <<"case_month", "cdc_case_earliest_dt", "res_state", "age_group", "sex",
    "race", "ethnicity", "death_yn", "hosp_yn", "icu_yn", "medcond_yn">>

KeepColSet == {KEEP_COLS[i] : i \in 1..Len(KEEP_COLS)}

\* the columns clean_df coerces to text and trims (line 88)
TrimCols ==
  <<"case_month", "age_group", "sex", "race", "ethnicity",
    "death_yn", "hosp_yn", "icu_yn", "medcond_yn">>

\* the columns clean_df fills with "Unknown" (line 94)
categorical_cols ==
  <<"age_group", "sex", "race", "ethnicity",
   "death_yn", "hosp_yn", "icu_yn", "medcond_yn">>

SeqToSet(s) == {s[i] : i \in 1..Len(s)}

\* status code that fetch_page retries on
RATE_LIMITED == 429
\* time.sleep(2) before the retry; the clock of the model counts ticks, a
\* request and the 0.7 s inter-page delay taking one tick each
BACKOFF_SECONDS == 2

\* -------------------------------------------------------------------- text
Str(s) == [k |-> "str", s |-> s]
None == [k |-> "none", s |-> <<>>]
NaN == [k |-> "nan", s |-> <<>>]
NaT == [k |-> "nat", s |-> <<>>]
Timestamp(s) == [k |-> "ts", s |-> s]

TxtNone == <<"N", "o", "n", "e">>
TxtNan == <<"n", "a", "n">>
TxtUnknown == <<"U", "n", "k", "n", "o", "w", "n">>

IsNull(cell) == cell.k \in {"none", "nan", "nat"}

LowerChars == <<"a", "e", "k", "n", "o", "w", "y", "f", "x">>
UpperChars == <<"A", "E", "K", "N", "O", "W", "Y", "F", "X">>

\* str.upper on one character
UpperChar(ch) ==
  IF \E i \in 1..Len(LowerChars) : LowerChars[i] = ch
  THEN UpperChars[CHOOSE i \in 1..Len(LowerChars) : LowerChars[i] = ch]
  ELSE ch

\* str.upper
StrUpper(s) == [i \in 1..Len(s) |-> UpperChar(s[i])]

IsSpace(ch) == ch = " "

RECURSIVE LStrip(_)
LStrip(s) ==
  IF s # <<>> /\ IsSpace(Head(s)) THEN LStrip(Tail(s)) ELSE s

RECURSIVE RStrip(_)
RStrip(s) ==
  IF s # <<>> /\ IsSpace(s[Len(s)]) THEN RStrip(SubSeq(s, 1, Len(s) - 1)) ELSE s

\* str.strip
StrStrip(s) == RStrip(LStrip(s))

\* Series.astype(str) on one cell: None is "None", NaN is "nan"
AsTypeStr(cell) ==
  CASE cell.k = "none" -> TxtNone
    [] cell.k = "nan" -> TxtNan
    [] cell.k = "nat" -> <<"N", "a", "T">>
    [] OTHER -> cell.s

IsDigit(ch) == ch \in {"0", "1", "2", "3", "4", "5", "6", "7", "8", "9"}

\* pd.to_datetime(errors="coerce") on one cell.  Of the formats pandas
\* accepts the model has the four-digit year; anything else in the model's
\* alphabet is unparseable and coerced to NaT, and a missing value is NaT.
ToDatetime(cell) ==
  IF cell.k = "ts" THEN cell
  ELSE IF cell.k = "str" /\ Len(StrStrip(cell.s)) = 4
          /\ \A i \in 1..4 : IsDigit(StrStrip(cell.s)[i])
       THEN Timestamp(StrStrip(cell.s))
       ELSE NaT

\* ------------------------------------------------------------- normaliser
\* One cell of DataFrame.from_records(rows) followed by lines 68-72: the
\* record's value; NaN where the record lacks a key that another record of
\* the page has; None where no record has the key (the column is added).
RecordCell(rows, i, c) ==
  IF c \in DOMAIN rows[i] THEN rows[i][c]
  ELSE IF \E j \in 1..Len(rows) : c \in DOMAIN rows[j] THEN NaN
       ELSE None

\* line 65: the columns of DataFrame.from_records(rows), the keys that occur
RecordColumns(rows) == UNION {DOMAIN rows[i] : i \in 1..Len(rows)}

\* a normaliser that adds no column
AddNoColumn(cols) == cols

\* lines 68-70: every column of KEEP_COLS that is not there is added
AddMissingColumns(cols) == cols \cup KeepColSet

\* lines 63 and 72: the columns of the batch returned, df[KEEP_COLS] taking
\* the columns of KEEP_COLS, in that order, out of those the frame has
transform_columns(rows) ==
  IF rows = <<>> THEN KEEP_COLS
  ELSE SelectSeq(KEEP_COLS,
                 LAMBDA c : c \in AddMissingColumns(RecordColumns(rows)))

\* transform_rows_to_df: a batch is the sequence of its rows, each row a
\* function on the columns of the batch; fields outside KEEP_COLS are dropped.
transform_rows_to_df(rows) ==
  IF rows = <<>> THEN <<>>
  ELSE [i \in 1..Len(rows) |->
          [c \in SeqToSet(transform_columns(rows)) |-> RecordCell(rows, i, c)]]

\* ----------------------------------------------------------------- cleaner
\* a comparison that tells None from NaN
ExactKey(cell) == cell

\* the key drop_duplicates compares cells by: every missing value is one NA
DupKey(cell) == IF IsNull(cell) THEN None ELSE cell

\* a comparison under which no two rows are duplicates
NeverSameRow(r1, r2) == FALSE

SameRow(r1, r2) == \A c \in KeepColSet : DupKey(r1[c]) = DupKey(r2[c])

\* DataFrame.drop_duplicates(): the first of equal rows survives, in order
RECURSIVE drop_duplicates(_)
drop_duplicates(df) ==
  IF df = <<>> THEN <<>>
  ELSE LET init == SubSeq(df, 1, Len(df) - 1)
           last == df[Len(df)]
       IN IF \E j \in 1..Len(init) : SameRow(init[j], last)
          THEN drop_duplicates(init)
          ELSE Append(drop_duplicates(init), last)

\* line 86: astype(str).str.strip().str.upper()
CleanState(cell) == Str(StrUpper(StrStrip(AsTypeStr(cell))))

\* line 91: astype(str).str.strip()
CleanText(cell) == Str(StrStrip(AsTypeStr(cell)))

\* a replace that knows the empty string only
ReplaceBlankOnly(cell) ==
  IF cell.k = "str" /\ cell.s = <<>> THEN None ELSE cell

\* line 97: replace({"None": None, "nan": None, "": None})
ReplaceMissing(cell) ==
  IF cell.k = "str" /\ cell.s \in {TxtNone, TxtNan, <<>>} THEN None ELSE cell

\* line 98: fillna("Unknown")
FillUnknown(cell) == IF IsNull(cell) THEN Str(TxtUnknown) ELSE cell

\* the columns of lines 94-98
FilledCols == SeqToSet(categorical_cols)

\* what lines 81-98 make of the cell of column c
CleanCell(c, cell) ==
  LET dated == IF c = "cdc_case_earliest_dt" THEN ToDatetime(cell) ELSE cell
      stated == IF c = "res_state" THEN CleanState(dated) ELSE dated
      trimmed == IF c \in SeqToSet(TrimCols) THEN CleanText(stated) ELSE stated
  IN IF c \in FilledCols THEN FillUnknown(ReplaceMissing(trimmed)) ELSE trimmed

CleanRow(r) == [c \in KeepColSet |-> CleanCell(c, r[c])]

\* clean_df: duplicates are dropped first, on the cells as they come in
clean_df(df) ==
  LET dedup == drop_duplicates(df)
  IN [i \in 1..Len(dedup) |-> CleanRow(dedup[i])]

\* ------------------------------------------------------------------- state
VARIABLES
  pc,              \* position in main / fetch_page
  pg_url,          \* os.environ.get("PG_URL"): TRUE when it is set
  page_size,       \* main's page_size
  max_records,     \* main's max_records
  total_inserted,
  offset,
  total_fetched,
  need,
  parameters,      \* fetch_page's parameters dict
  rows,            \* what fetch_page returned: [none, recs]
  fetched_count,
  batch_ts,
  df,              \* the tagged page: sequence of [tag, row]
  df_columns,      \* the columns of df, in order
  df_raw_from_pg,
  df_clean,
  raw,             \* table covid_case_surveillance_raw
  curated,         \* table covid_case_surveillance
  now,             \* the UTC clock, in ticks
  net,             \* the fetch_page calls of the run, each followed by its
                   \* requests.get (with the response) and time.sleep calls
  error,           \* the exception that left main, if any
  out              \* what was printed

vars ==
  <<pc, pg_url, page_size, max_records, total_inserted, offset, total_fetched,
    need, parameters, rows, fetched_count, batch_ts, df, df_columns,
    df_raw_from_pg, df_clean, raw, curated, now, net, error, out>>

\* ------------------------------------------------------------- environment
T(s) == Str(s)

\* a record with every field, some of them blank or padded
RecA ==
  [c \in KeepColSet \cup {"county_fips_code"} |->
     CASE c = "case_month" -> T(<<"2", "0", "2", "0">>)
       [] c = "cdc_case_earliest_dt" -> T(<<"2", "0", "2", "0">>)
       [] c = "res_state" -> T(<<" ", "n", "y", " ">>)
       [] c = "age_group" -> T(<<>>)
       [] c = "sex" -> None
       [] c = "race" -> T(TxtNan)
       [] c = "death_yn" -> T(<<" ", "y", " ">>)
       [] OTHER -> T(<<"N">>)]

\* a record the API sent without most of its fields
RecB ==
  [c \in {"res_state", "sex", "cdc_case_earliest_dt"} |->
     CASE c = "res_state" -> T(<<"n", "y">>)
       [] c = "sex" -> T(<<"F">>)
       [] OTHER -> T(<<"x">>)]

ApiRecords == {RecA, RecB}

\* the pages the API serves: of every length up to MaxPageLen, one made of
\* the same record throughout (duplicate rows) and one that alternates
\* between the two records
ApiPages ==
  {[i \in 1..n |-> RecA] : n \in 0..MaxPageLen}
    \cup {[i \in 1..n |-> IF i % 2 = 1 THEN RecB ELSE RecA] : n \in 0..MaxPageLen}

OtherHttpErrors == {500}

Ok(body) == [kind |-> "ok", status |-> 200, body |-> body]
HttpError(status) == [kind |-> "http", status |-> status, body |-> <<>>]
NetworkError == [kind |-> "network", status |-> 0, body |-> <<>>]
NoError == [kind |-> "none", status |-> 0, body |-> <<>>]
SystemExit == [kind |-> "SystemExit", status |-> 0, body |-> <<>>]

\* what one requests.get can come back with
Responses ==
  {Ok(b) : b \in ApiPages}
    \cup {HttpError(s) : s \in {RATE_LIMITED} \cup OtherHttpErrors}
    \cup {NetworkError}

NoData == [none |-> TRUE, recs |-> <<>>]
Json(body) == [none |-> FALSE, recs |-> body]

\* a value written to a table: NaN and NaT are stored as NULL, and NULL is
\* read back as None
StoreCell(cell) == IF IsNull(cell) THEN None ELSE cell

StoreRow(r) == [c \in KeepColSet |-> StoreCell(r[c])]

\* a row some earlier run left in the tables
OldRow == StoreRow(transform_rows_to_df(<<RecB>>)[1])

Say(m, n) == Append(out, [msg |-> m, n |-> n])

Min(a, b) == IF a < b THEN a ELSE b

\* the clock after a wait of d ticks
Sleep(d) == now + d

\* ------------------------------------------------------------------- Init
Init ==
  /\ pc = "start"
  /\ pg_url \in BOOLEAN
  /\ page_size \in 1..MaxPageSize
  /\ max_records \in 1..MaxMaxRecords
  /\ total_inserted = 0
  /\ offset = 0
  /\ total_fetched = 0
  /\ need = 0
  /\ parameters = [limit |-> 0, offset |-> 0]
  /\ rows = NoData
  /\ fetched_count = 0
  /\ batch_ts = 0
  /\ df = <<>>
  /\ df_columns = <<>>
  /\ df_raw_from_pg = <<>>
  /\ df_clean = <<>>
  /\ \E old \in {<<>>, <<OldRow>>} :
       /\ raw = [i \in 1..Len(old) |-> [tag |-> 0, row |-> old[i]]]
       /\ curated = [i \in 1..Len(old) |-> StoreRow(CleanRow(old[i]))]
  /\ now = 1
  /\ net = <<>>
  /\ error = NoError
  /\ out = <<>>

\* ------------------------------------------------------ reading the state
IsPrefix(s, t) == Len(s) <= Len(t) /\ SubSeq(t, 1, Len(s)) = s

\* the fetch cycles of the run so far: the calls of fetch_page
Cycles == Len(SelectSeq(net, LAMBDA e : e.ev = "call"))

\* the requests.get calls in a piece of the log
Gets(log) == SelectSeq(log, LAMBDA e : e.ev = "get")

\* the log of the latest call of fetch_page, from its "call" entry on
CurCall ==
  IF \E i \in 1..Len(net) : net[i].ev = "call"
  THEN LET start == CHOOSE i \in 1..Len(net) :
                      /\ net[i].ev = "call"
                      /\ \A j \in (i + 1)..Len(net) : net[j].ev # "call"
       IN SubSeq(net, start, Len(net))
  ELSE <<>>

\* ------------------------------------------------------------ get_engine
\* a get_engine that goes on without the configuration
GetEngineUnchecked ==
  /\ pc = "start"
  /\ pc' = "while" /\ error' = error
  /\ total_inserted' = 0 /\ offset' = 0 /\ total_fetched' = 0
  /\ UNCHANGED <<df_columns, pg_url, page_size, max_records, need, parameters, rows,
                 fetched_count, batch_ts, df, df_raw_from_pg, df_clean, raw,
                 curated, now, net, out>>

\* main line 134: get_engine raises SystemExit when PG_URL is not set
GetEngine ==
  /\ pc = "start"
  /\ IF pg_url
     THEN pc' = "while" /\ error' = error
     ELSE pc' = "exit" /\ error' = SystemExit
  /\ total_inserted' = 0 /\ offset' = 0 /\ total_fetched' = 0
  /\ UNCHANGED <<df_columns, pg_url, page_size, max_records, need, parameters, rows,
                 fetched_count, batch_ts, df, df_raw_from_pg, df_clean, raw,
                 curated, now, net, out>>

\* fetch_page(limit=need, offset=offset, where=where) is entered
Call(limit, off) == [ev |-> "call", limit |-> limit, offset |-> off, resp |-> NoError]

\* need without the cap of the records still wanted
NeedUncapped == page_size

\* line 141
Need == Min(page_size, max_records - total_fetched)

\* a loop that goes round once more when total_fetched = max_records
LoopTestInclusive ==
  /\ pc = "while"
  /\ IF total_fetched <= max_records
     THEN /\ need' = Need
          /\ parameters' = [limit |-> Need, offset |-> offset]
          /\ net' = Append(net, Call(Need, offset))
          /\ out' = Say("fetching", Need)
          /\ pc' = "request"
     ELSE /\ pc' = "report"
          /\ UNCHANGED <<need, parameters, net, out>>
  /\ UNCHANGED <<df_columns, pg_url, page_size, max_records, total_inserted, offset,
                 total_fetched, rows, fetched_count, batch_ts, df,
                 df_raw_from_pg, df_clean, raw, curated, now, error>>

\* lines 139-144 and 37: the loop test, need, and the call of fetch_page
LoopTest ==
  /\ pc = "while"
  /\ IF total_fetched < max_records
     THEN /\ need' = Need
          /\ parameters' = [limit |-> Need, offset |-> offset]
          /\ net' = Append(net, Call(Need, offset))
          /\ out' = Say("fetching", Need)
          /\ pc' = "request"
     ELSE /\ pc' = "report"
          /\ UNCHANGED <<need, parameters, net, out>>
  /\ UNCHANGED <<df_columns, pg_url, page_size, max_records, total_inserted, offset,
                 total_fetched, rows, fetched_count, batch_ts, df,
                 df_raw_from_pg, df_clean, raw, curated, now, error>>

\* ------------------------------------------------------------- fetch_page
\* a handler that retries on every error status
IsAnyErrorStatus(status) == status >= 400

\* line 46: the status the handler retries on
IsRateLimit(status) == status = RATE_LIMITED

\* requests.get(API_URL, params=parameters, timeout=60) answered by resp
Get(resp) ==
  [ev |-> "get", limit |-> parameters.limit, offset |-> parameters.offset,
   resp |-> resp]

\* time.sleep inside fetch_page
Wait == [ev |-> "sleep", limit |-> 0, offset |-> 0, resp |-> NoError]

\* the calls of fetch_page so far whose first request was answered 429
LimitedCalls ==
  Cardinality({i \in 2..Len(net) :
                 /\ net[i - 1].ev = "call"
                 /\ net[i].ev = "get"
                 /\ net[i].resp = HttpError(RATE_LIMITED)})

\* what the first request of a call can come back with
FirstResponses ==
  IF LimitedCalls < MaxLimitedCalls
  THEN Responses
  ELSE Responses \ {HttpError(RATE_LIMITED)}

\* lines 42-47 and 52-56: the first request and the dispatch on its outcome
Request ==
  /\ pc = "request"
  /\ \E resp \in FirstResponses :
       /\ net' = Append(net, Get(resp))
       /\ now' = now + 1
       /\ CASE resp.kind = "ok" ->
                 /\ rows' = Json(resp.body)
                 /\ pc' = "check_rows"
                 /\ UNCHANGED <<error, out>>
            [] resp.kind = "http" /\ IsRateLimit(resp.status) ->
                 /\ out' = Say("rate limit hit", 0)
                 /\ pc' = "backoff"
                 /\ UNCHANGED <<error, rows>>
            [] resp.kind = "http" /\ ~IsRateLimit(resp.status) ->
                 /\ error' = resp
                 /\ pc' = "aborted"
                 /\ UNCHANGED <<rows, out>>
            [] resp.kind = "network" ->
                 /\ out' = Say("Request error", 0)
                 /\ rows' = NoData
                 /\ pc' = "check_rows"
                 /\ UNCHANGED error
  /\ UNCHANGED <<df_columns, pg_url, page_size, max_records, total_inserted, offset,
                 total_fetched, need, parameters, fetched_count, batch_ts, df,
                 df_raw_from_pg, df_clean, raw, curated>>

\* the retry issued at once, without the wait
BackoffSkipped ==
  /\ pc = "backoff"
  /\ pc' = "retry"
  /\ UNCHANGED <<df_columns, pg_url, page_size, max_records, total_inserted, offset,
                 total_fetched, need, parameters, rows, fetched_count,
                 batch_ts, df, df_raw_from_pg, df_clean, raw, curated, error,
                 out, net, now>>

\* line 48: time.sleep(2)
Backoff ==
  /\ pc = "backoff"
  /\ net' = Append(net, Wait)
  /\ now' = Sleep(BACKOFF_SECONDS)
  /\ pc' = "retry"
  /\ UNCHANGED <<df_columns, pg_url, page_size, max_records, total_inserted, offset,
                 total_fetched, need, parameters, rows, fetched_count,
                 batch_ts, df, df_raw_from_pg, df_clean, raw, curated, error,
                 out>>

\* a retry that waits and tries again for as long as the API answers 429
RetryUntilAccepted ==
  /\ pc = "retry"
  /\ Len(Gets(CurCall)) < 3
  /\ \E resp \in Responses :
       /\ net' = Append(net, Get(resp))
       /\ now' = now + 1
       /\ IF resp.kind = "ok"
          THEN /\ rows' = Json(resp.body)
               /\ pc' = "check_rows"
               /\ error' = error
          ELSE IF resp.kind = "http" /\ resp.status = RATE_LIMITED
               THEN pc' = "backoff" /\ UNCHANGED <<rows, error>>
               ELSE /\ error' = resp
                    /\ pc' = "aborted"
                    /\ rows' = rows
  /\ UNCHANGED <<df_columns, pg_url, page_size, max_records, total_inserted, offset,
                 total_fetched, need, parameters, fetched_count, batch_ts, df,
                 df_raw_from_pg, df_clean, raw, curated, out>>

\* lines 49-51: the retry runs inside the HTTPError handler, so nothing
\* raised by it is caught by either except clause of the try statement
Retry ==
  /\ pc = "retry"
  /\ \E resp \in Responses :
       /\ net' = Append(net, Get(resp))
       /\ now' = now + 1
       /\ IF resp.kind = "ok"
          THEN /\ rows' = Json(resp.body)
               /\ pc' = "check_rows"
               /\ error' = error
          ELSE /\ error' = resp
               /\ pc' = "aborted"
               /\ rows' = rows
  /\ UNCHANGED <<df_columns, pg_url, page_size, max_records, total_inserted, offset,
                 total_fetched, need, parameters, fetched_count, batch_ts, df,
                 df_raw_from_pg, df_clean, raw, curated, out>>

\* --------------------------------------------------------- main, per page
\* a test that takes only None for "no rows"
RowsIsNone == rows.none

\* line 145: not rows, for None and for the empty list
NotRows == rows.none \/ rows.recs = <<>>

\* lines 145-149
CheckRows ==
  /\ pc = "check_rows"
  /\ IF NotRows
     THEN /\ out' = Say("no enough rows here so exiting.", 0)
          /\ pc' = "report"
          /\ UNCHANGED <<fetched_count, total_fetched>>
     ELSE /\ fetched_count' = Len(rows.recs)
          /\ total_fetched' = total_fetched + Len(rows.recs)
          /\ pc' = "transform"
          /\ out' = out
  /\ UNCHANGED <<df_columns, pg_url, page_size, max_records, total_inserted, offset, need,
                 parameters, rows, batch_ts, df, df_raw_from_pg, df_clean,
                 raw, curated, now, net, error>>

\* line 155: pd.Timestamp.utcnow()
UtcNow == now

\* lines 152-156: normalise the page and tag every row of it
Transform ==
  /\ pc = "transform"
  /\ batch_ts' = UtcNow
  /\ df' = LET t == transform_rows_to_df(rows.recs)
           IN [i \in 1..Len(t) |-> [tag |-> UtcNow, row |-> t[i]]]
  /\ df_columns' = Append(transform_columns(rows.recs), "_ingested_at")
  /\ pc' = "land"
  /\ UNCHANGED <<pg_url, page_size, max_records, total_inserted, offset,
                 total_fetched, need, parameters, rows, fetched_count,
                 df_raw_from_pg, df_clean, raw, curated, now, net, error, out>>

\* to_sql with if_exists="replace": the batch takes the place of the table
ToSqlReplace(table, batch) == batch

\* df.to_sql(..., if_exists="append"): the table followed by the batch
ToSqlAppend(table, batch) == table \o batch

\* load_df_to_postgres_raw
load_df_to_postgres_raw(batch) ==
  ToSqlAppend(raw, [i \in 1..Len(batch) |->
                      [tag |-> batch[i].tag, row |-> StoreRow(batch[i].row)]])

\* lines 159-162
Land ==
  /\ pc = "land"
  /\ IF df # <<>>
     THEN raw' = load_df_to_postgres_raw(df) /\ out' = out
     ELSE raw' = raw /\ out' = Say("Raw DataFrame is empty.", 0)
  /\ pc' = "readback"
  /\ UNCHANGED <<df_columns, pg_url, page_size, max_records, total_inserted, offset,
                 total_fetched, need, parameters, rows, fetched_count,
                 batch_ts, df, df_raw_from_pg, df_clean, curated, now, net,
                 error>>

\* a read-back of everything landed up to the tag
SelectUpToTag(table, ts) == SelectSeq(table, LAMBDA r : r.tag <= ts)

\* line 165: SELECT * FROM covid_case_surveillance_raw WHERE _ingested_at = ts
SelectByTag(table, ts) == SelectSeq(table, LAMBDA r : r.tag = ts)

\* line 170: drop(columns=["_ingested_at"])
DropTag(batch) == [i \in 1..Len(batch) |-> batch[i].row]

\* a read-back that finds none of the rows landed
ReadBackNothing ==
  /\ pc = "readback"
  /\ df_raw_from_pg' = <<>>
  /\ pc' = "clean"
  /\ UNCHANGED <<df_columns, pg_url, page_size, max_records, total_inserted, offset,
                 total_fetched, need, parameters, rows, fetched_count,
                 batch_ts, df, df_clean, raw, curated, now, net, error, out>>

\* lines 165-170
ReadBack ==
  /\ pc = "readback"
  /\ df_raw_from_pg' = DropTag(SelectByTag(raw, batch_ts))
  /\ pc' = "clean"
  /\ UNCHANGED <<df_columns, pg_url, page_size, max_records, total_inserted, offset,
                 total_fetched, need, parameters, rows, fetched_count,
                 batch_ts, df, df_clean, raw, curated, now, net, error, out>>

\* lines 173-175
Clean ==
  /\ pc = "clean"
  /\ df_clean' = clean_df(df_raw_from_pg)
  /\ out' = Say("cleaned_count", Len(clean_df(df_raw_from_pg)))
  /\ pc' = "curate"
  /\ UNCHANGED <<df_columns, pg_url, page_size, max_records, total_inserted, offset,
                 total_fetched, need, parameters, rows, fetched_count,
                 batch_ts, df, df_raw_from_pg, raw, curated, now, net, error>>

\* load_df_to_postgres
load_df_to_postgres(batch) ==
  ToSqlAppend(curated, [i \in 1..Len(batch) |-> StoreRow(batch[i])])

\* a driver that leaves the loop when the cleaned batch is empty
CurateOrStop ==
  /\ pc = "curate"
  /\ IF df_clean # <<>>
     THEN /\ curated' = load_df_to_postgres(df_clean)
          /\ total_inserted' = total_inserted + Len(df_clean)
          /\ out' = Say("inserted", total_inserted + Len(df_clean))
          /\ pc' = "advance"
     ELSE /\ UNCHANGED <<curated, total_inserted>>
          /\ out' = Say("DataFrame is empty after cleaning.", 0)
          /\ pc' = "report"
  /\ UNCHANGED <<df_columns, pg_url, page_size, max_records, offset, total_fetched, need,
                 parameters, rows, fetched_count, batch_ts, df,
                 df_raw_from_pg, df_clean, raw, now, net, error>>

\* lines 178-183
Curate ==
  /\ pc = "curate"
  /\ IF df_clean # <<>>
     THEN /\ curated' = load_df_to_postgres(df_clean)
          /\ total_inserted' = total_inserted + Len(df_clean)
          /\ out' = Say("inserted", total_inserted + Len(df_clean))
     ELSE /\ UNCHANGED <<curated, total_inserted>>
          /\ out' = Say("DataFrame is empty after cleaning.", 0)
  /\ pc' = "advance"
  /\ UNCHANGED <<df_columns, pg_url, page_size, max_records, offset, total_fetched, need,
                 parameters, rows, fetched_count, batch_ts, df,
                 df_raw_from_pg, df_clean, raw, now, net, error>>

\* an offset that moves on by the number of records asked for
AdvanceByNeed ==
  /\ pc = "advance"
  /\ offset' = offset + need
  /\ now' = Sleep(1)
  /\ pc' = "short_check"
  /\ UNCHANGED <<df_columns, pg_url, page_size, max_records, total_inserted,
                 total_fetched, need, parameters, rows, fetched_count,
                 batch_ts, df, df_raw_from_pg, df_clean, raw, curated, net,
                 error, out>>

\* lines 186-187: the offset moves on and the inter-page delay passes
Advance ==
  /\ pc = "advance"
  /\ offset' = offset + fetched_count
  /\ now' = Sleep(1)
  /\ pc' = "short_check"
  /\ UNCHANGED <<df_columns, pg_url, page_size, max_records, total_inserted,
                 total_fetched, need, parameters, rows, fetched_count,
                 batch_ts, df, df_raw_from_pg, df_clean, raw, curated, net,
                 error, out>>

\* a test that stops only on an empty page
PageIsEmpty == fetched_count = 0

\* line 191
ShortPage == fetched_count < need

\* lines 191-193
ShortCheck ==
  /\ pc = "short_check"
  /\ IF ShortPage
     THEN out' = Say("not enough, short dataset-Thanks.", 0) /\ pc' = "report"
     ELSE out' = out /\ pc' = "while"
  /\ UNCHANGED <<df_columns, pg_url, page_size, max_records, total_inserted, offset,
                 total_fetched, need, parameters, rows, fetched_count,
                 batch_ts, df, df_raw_from_pg, df_clean, raw, curated, now,
                 net, error>>

\* a report of the records fetched
ReportFetched ==
  /\ pc = "report"
  /\ out' = Say("process finished.Total inserted", total_fetched)
  /\ pc' = "done"
  /\ UNCHANGED <<df_columns, pg_url, page_size, max_records, total_inserted, offset,
                 total_fetched, need, parameters, rows, fetched_count,
                 batch_ts, df, df_raw_from_pg, df_clean, raw, curated, now,
                 net, error>>

\* line 196
Report ==
  /\ pc = "report"
  /\ out' = Say("process finished.Total inserted", total_inserted)
  /\ pc' = "done"
  /\ UNCHANGED <<df_columns, pg_url, page_size, max_records, total_inserted, offset,
                 total_fetched, need, parameters, rows, fetched_count,
                 batch_ts, df, df_raw_from_pg, df_clean, raw, curated, now,
                 net, error>>

Next ==
  \/ GetEngine
  \/ LoopTest
  \/ Request
  \/ Backoff
  \/ Retry
  \/ CheckRows
  \/ Transform
  \/ Land
  \/ ReadBack
  \/ Clean
  \/ Curate
  \/ Advance
  \/ ShortCheck
  \/ Report

Spec == Init /\ [][Next]_vars

\* the steps of main other than the cleaning of a page
NextButClean ==
  \/ GetEngine
  \/ LoopTest
  \/ Request
  \/ Backoff
  \/ Retry
  \/ CheckRows
  \/ Transform
  \/ Land
  \/ ReadBack
  \/ Curate
  \/ Advance
  \/ ShortCheck
  \/ Report

\* main is one thread that runs each statement in turn, and requests.get
\* returns within its timeout: a step that can be taken is taken. The last
\* conjunct is WF_vars(Clean): Clean can be taken exactly when pc = "clean",
\* and taking it leaves that position
Fairness == WF_vars(NextButClean) /\ []<>(pc # "clean")

\* a run that starts on empty tables
InitEmptyStore == Init /\ raw = <<>>

FairSpec == InitEmptyStore /\ [][Next]_vars /\ Fairness

\* ----------------------------------------------- a store call that fails
\* what to_sql or read_sql raises when the database refuses the statement
DatabaseError == [kind |-> "database", status |-> 0, body |-> <<>>]

\* lines 160, 165 and 179: main catches nothing, so an error raised by a
\* store call ends the run where it stands; to_sql writes a batch in one
\* transaction, so a failed call leaves the table as it was
StoreFailure ==
  /\ \/ pc = "land" /\ df # <<>>
     \/ pc = "readback"
     \/ pc = "curate" /\ df_clean # <<>>
  /\ pc' = "aborted"
  /\ error' = DatabaseError
  /\ UNCHANGED <<df_columns, pg_url, page_size, max_records, total_inserted, offset,
                 total_fetched, need, parameters, rows, fetched_count,
                 batch_ts, df, df_raw_from_pg, df_clean, raw, curated, now,
                 net, out>>

NextCrash == Next \/ StoreFailure

\* the driver against a database whose calls can fail
SpecCrash == Init /\ [][NextCrash]_vars

\* ------------------------------- a store that keeps the tag less precisely
\* the tag as a column of coarser precision keeps it: an earlier instant
TruncatedTag(ts) == ts - 1

\* lines 159-160 against a table whose _ingested_at column truncates
LandTruncated ==
  /\ pc = "land"
  /\ df # <<>>
  /\ raw' = load_df_to_postgres_raw(
              [i \in 1..Len(df) |->
                 [tag |-> TruncatedTag(df[i].tag), row |-> df[i].row]])
  /\ pc' = "readback"
  /\ UNCHANGED <<df_columns, pg_url, page_size, max_records, total_inserted, offset,
                 total_fetched, need, parameters, rows, fetched_count,
                 batch_ts, df, df_raw_from_pg, df_clean, curated, now, net,
                 error, out>>

\* main with every landing made into the truncating table
NextTruncating ==
  \/ GetEngine
  \/ LoopTest
  \/ Request
  \/ Backoff
  \/ Retry
  \/ CheckRows
  \/ Transform
  \/ LandTruncated
  \/ ReadBack
  \/ Clean
  \/ Curate
  \/ Advance
  \/ ShortCheck
  \/ Report

\* the driver against a store that does not keep the full precision of the
\* tag
SpecTruncating == Init /\ [][NextTruncating]_vars

\* ------------------------------------------------------ reading the output
Said(m) == \E i \in 1..Len(out) : out[i].msg = m

ShortExit == Said("not enough, short dataset-Thanks.")
NoRowsExit == Said("no enough rows here so exiting.")
Finished == Said("process finished.Total inserted")

Stopped == pc \in {"report", "done", "aborted", "exit"}

\* the rows of a page are pairwise different as records of the batch
NoDuplicates(body) ==
  \A i, j \in 1..Len(body) :
    i # j => transform_rows_to_df(body)[i] # transform_rows_to_df(body)[j]

\* ---------------------------------------------------------------------- C1
C1Sizes == <<2, 2, 1>>

\* the source has so far answered k requests, the first k pages of sizes
\* [2,2,1], none of them with a duplicate row, to a driver started with
\* page_size=2 and max_records=5
C1Scenario(k) ==
  /\ pg_url /\ page_size = 2 /\ max_records = 5
  /\ Len(Gets(net)) = k
  /\ \A i \in 1..k :
       /\ Gets(net)[i].resp.kind = "ok"
       /\ Len(Gets(net)[i].resp.body) = C1Sizes[i]
       /\ NoDuplicates(Gets(net)[i].resp.body)

\* C1 as stated: with page_size=2, max_records=5 and pages of sizes [2,2,1]
\* the finished run made 3 fetch cycles, inserted 5 rows and left the loop
\* through the short-page exit.
C1_AsStated ==
  (C1Scenario(3) /\ pc = "done") =>
    (Cycles = 3 /\ total_inserted = 5 /\ ShortExit)

\* C1 amended: with page_size=2, max_records=5 and pages of sizes [2,2,1]
\* the driver does not stop before the third page, makes exactly 3 fetch
\* cycles and inserts 5 rows; the third page has need = 1 records, so the
\* short-page exit is not taken and the loop ends on its while condition,
\* total_fetched = max_records.
C1_ThreeCyclesFiveRows ==
  /\ (\E k \in 0..2 : C1Scenario(k)) => ~Stopped
  /\ C1Scenario(3) => (Cycles = 3 /\ pc # "aborted")
  /\ (C1Scenario(3) /\ pc = "done") =>
       /\ total_inserted = 5
       /\ total_fetched = max_records
       /\ fetched_count = need
       /\ ~ShortExit /\ ~NoRowsExit
       /\ out[Len(out)] = [msg |-> "process finished.Total inserted", n |-> 5]

C1_Witness == C1Scenario(3) /\ pc = "done" /\ total_inserted = 5

\* ---------------------------------------------------------------------- C2
\* the page fetched last has rows, and fewer of them than were asked for
LastPageShort == ~rows.none /\ 0 < Len(rows.recs) /\ Len(rows.recs) < need

\* the rows of a raw-table slice as the store keeps the page fetched last
LastPageStored ==
  [i \in 1..Len(rows.recs) |-> StoreRow(transform_rows_to_df(rows.recs)[i])]

\* the page fetched last went through every stage of the iteration
LastPageProcessed ==
  /\ fetched_count = Len(rows.recs)
  /\ Len(raw) >= fetched_count
  /\ DropTag(SubSeq(raw, Len(raw) - fetched_count + 1, Len(raw))) = LastPageStored
  /\ df_raw_from_pg = LastPageStored
  /\ Len(df_clean) >= 1
  /\ Len(df_clean) = Len(drop_duplicates(LastPageStored))
  /\ Len(curated) >= Len(df_clean)
  /\ SubSeq(curated, Len(curated) - Len(df_clean) + 1, Len(curated))
       = [i \in 1..Len(df_clean) |-> StoreRow(df_clean[i])]

\* C2: a non-empty page shorter than requested is landed, read back, cleaned
\* and curated, and then the loop stops (the short-page exit), with no
\* further fetch even when total_fetched < max_records.
C2_ShortPageStops ==
  /\ [](pc = "while" => ~LastPageShort)
  /\ []((pc \in {"report", "done"} /\ LastPageShort) =>
          (ShortExit /\ LastPageProcessed))
  /\ [](ShortExit => (pc \in {"report", "done"} /\ LastPageShort))
  /\ [][(pc = "short_check" /\ LastPageShort) => (pc' = "report")]_vars
  /\ [][(pc \in {"report", "done"}) => (net' = net)]_vars

C2_Witness ==
  /\ pc = "done" /\ LastPageShort /\ ShortExit
  /\ total_fetched < max_records
  /\ Cycles = 2

\* ---------------------------------------------------------------------- C3
\* fetch_page came back with None or with an empty array
FetchedNothing == rows.none \/ Len(rows.recs) = 0

\* the rows this run has landed (the rows of earlier runs carry tag 0)
RunLanded == SelectSeq(raw, LAMBDA r : r.tag > 0)

\* C3: when a fetch yields no rows the loop stops at once: nothing is landed
\* or curated, offset, total_fetched and total_inserted are unchanged, no
\* further fetch is issued, and the total inserted is reported.
C3_NoRowsStops ==
  /\ [][(pc = "check_rows" /\ FetchedNothing) =>
          (/\ pc' = "report"
           /\ UNCHANGED <<raw, curated, offset, total_fetched, total_inserted,
                          net>>)]_vars
  /\ [][(pc = "report") =>
          (/\ pc' = "done"
           /\ out' = Append(out, [msg |-> "process finished.Total inserted",
                                  n |-> total_inserted])
           /\ UNCHANGED <<raw, curated, offset, total_fetched, total_inserted,
                          net>>)]_vars
  /\ [][(pc = "done") => FALSE]_vars
  /\ [](NoRowsExit => (pc \in {"report", "done"} /\ FetchedNothing
                        /\ Len(RunLanded) = total_fetched
                        /\ offset = total_fetched))

C3_Witness ==
  /\ pc = "done" /\ NoRowsExit /\ ~rows.none /\ rows.recs = <<>>
  /\ total_inserted > 0

\* ---------------------------------------------------------------------- C4
\* C4: a first request answered 429 and a retry that succeeds: fetch_page
\* returns the data of the second response, after exactly two requests with
\* identical parameters and exactly one wait, between the two.
C4_RetryAfter429 ==
  LET g == Gets(CurCall)
  IN (Len(g) >= 2 /\ g[1].resp = HttpError(429) /\ g[2].resp.kind = "ok") =>
       /\ Len(g) = 2
       /\ Len(CurCall) = 4
       /\ CurCall[1].ev = "call" /\ CurCall[2] = g[1]
       /\ CurCall[3].ev = "sleep" /\ CurCall[4] = g[2]
       /\ g[1].limit = g[2].limit /\ g[1].offset = g[2].offset
       /\ g[1].limit = CurCall[1].limit /\ g[1].offset = CurCall[1].offset
       /\ rows = [none |-> FALSE, recs |-> g[2].resp.body]
       /\ error = NoError
       /\ pc # "aborted"

C4_Witness ==
  /\ pc = "check_rows"
  /\ Len(Gets(CurCall)) = 2
  /\ Gets(CurCall)[1].resp = HttpError(429)
  /\ Gets(CurCall)[2].resp.kind = "ok"
  /\ rows.recs # <<>>

\* ---------------------------------------------------------------------- C5
\* C5: a first request that fails with an HTTP status other than 429: the
\* error leaves fetch_page, after exactly one request and no wait.
C5_OtherHttpErrorPropagates ==
  LET g == Gets(CurCall)
  IN (Len(g) >= 1 /\ g[1].resp.kind = "http" /\ g[1].resp.status # 429) =>
       /\ pc = "aborted"
       /\ error = g[1].resp
       /\ Len(CurCall) = 2 /\ CurCall[1].ev = "call" /\ CurCall[2] = g[1]
       /\ ~Finished

C5_Witness ==
  /\ pc = "aborted" /\ error = HttpError(500)
  /\ Len(Gets(CurCall)) = 1
  /\ Cycles = 2

\* ---------------------------------------------------------------------- C6
Sleeps(log) == SelectSeq(log, LAMBDA e : e.ev = "sleep")

\* C6: one call of fetch_page makes at most two requests, the second only
\* after a 429 on the first; an HTTP error on the retry leaves fetch_page
\* without another retry, and the driver run ends there, aborted.
C6_AtMostOneRetry ==
  /\ [](LET g == Gets(CurCall)
        IN /\ Len(g) <= 2
           /\ Len(Sleeps(CurCall)) <= 1
           /\ Len(g) = 2 => g[1].resp = HttpError(429)
           /\ (Len(g) = 2 /\ g[2].resp.kind = "http") =>
                (pc = "aborted" /\ error = g[2].resp /\ ~Finished))
  /\ [][(pc = "aborted") => FALSE]_vars

C6_Witness ==
  /\ pc = "aborted"
  /\ Len(Gets(CurCall)) = 2
  /\ Gets(CurCall)[2].resp = HttpError(429)
  /\ error = HttpError(429)

\* ---------------------------------------------------------------------- C7
\* C7 as stated: a network-level failure of any request of fetch_page, the
\* first or the retry, is swallowed: fetch_page yields no data and the
\* driver leaves through its no-rows exit instead of aborting.
C7_AsStated ==
  LET g == Gets(CurCall)
  IN (\E i \in 1..Len(g) : g[i].resp = NetworkError) =>
       /\ error = NoError
       /\ rows = NoData
       /\ pc \in {"check_rows", "report", "done"}

\* ------------------------------------------------- clean_df called alone
\* cells a batch handed to clean_df can hold in a text column
SampleCells ==
  {None, NaN, T(<<>>), T(<<" ">>), T(TxtNone), T(<<" ", "n", "a", "n", " ">>),
   T(<<" ", "y", " ">>)}

BaseRow ==
  [c \in KeepColSet |->
     CASE c = "cdc_case_earliest_dt" -> T(<<"2", "0", "2", "0">>)
       [] c = "res_state" -> T(<<"n", "y">>)
       [] OTHER -> T(<<"N">>)]

\* the columns in which the sample rows differ from BaseRow: one of each
\* treatment of clean_df, the first and the last of the filled columns
VariedCols ==
  {"case_month", "cdc_case_earliest_dt", "res_state", "age_group", "medcond_yn"}

SampleRows ==
  {[BaseRow EXCEPT ![c] = v] : c \in VariedCols, v \in SampleCells}

CleanBatches == UNION {[1..n -> SampleRows] : n \in 0..MaxBatchLen}

\* clean_df is about to be applied to a batch of CleanBatches
InitClean ==
  /\ pc = "clean"
  /\ df_raw_from_pg \in CleanBatches
  /\ pg_url = TRUE
  /\ page_size = 1
  /\ max_records = 1
  /\ total_inserted = 0
  /\ offset = 0
  /\ total_fetched = 0
  /\ need = 0
  /\ parameters = [limit |-> 0, offset |-> 0]
  /\ rows = NoData
  /\ fetched_count = 0
  /\ batch_ts = 0
  /\ df = <<>>
  /\ df_columns = <<>>
  /\ df_clean = <<>>
  /\ raw = <<>>
  /\ curated = <<>>
  /\ now = 1
  /\ net = <<>>
  /\ error = NoError
  /\ out = <<>>

NextClean == Clean

SpecClean == InitClean /\ [][NextClean]_vars

\* ---------------------------------------------------------------------- C8
\* t is s without the blanks around it
IsTrimOf(t, s) ==
  \E i \in 1..(Len(s) + 1) : \E j \in 0..Len(s) :
    /\ t = SubSeq(s, i, j)
    /\ \A k \in 1..Len(s) : (k < i \/ k > j) => s[k] = " "
    /\ t # <<>> => (t[1] # " " /\ t[Len(t)] # " ")

MissingTexts == {<<>>, TxtNone, TxtNan}

C8Cols ==
  {"case_month", "age_group", "sex", "race", "ethnicity", "death_yn",
   "hosp_yn", "icu_yn", "medcond_yn"}

C8FilledCols == C8Cols \ {"case_month"}

\* what the claim says of one cell: a is the input cell, b the output cell
C8CellAsStated(a, b) ==
  /\ b.k = "str" /\ b.s \notin MissingTexts
  /\ IF IsNull(a) \/ a.s \in MissingTexts
     THEN b.s = TxtUnknown
     ELSE IsTrimOf(b.s, a.s)

\* every output row comes from an input row, and every input row has its
\* output row, the cells of the columns cols related by Rel
C8RowsRelated(cols, Rel(_, _)) ==
  /\ \A i \in 1..Len(df_clean) : \E j \in 1..Len(df_raw_from_pg) :
       \A c \in cols : Rel(df_raw_from_pg[j][c], df_clean[i][c])
  /\ \A j \in 1..Len(df_raw_from_pg) : \E i \in 1..Len(df_clean) :
       \A c \in cols : Rel(df_raw_from_pg[j][c], df_clean[i][c])

\* C8 as stated: after clean_df no cell of the nine columns case_month ..
\* medcond_yn is null, "", "None" or "nan"; a cell that was "", "None",
\* "nan" or absent is "Unknown", every other cell is its trimmed value.
C8_AsStated ==
  pc = "curate" => C8RowsRelated(C8Cols, C8CellAsStated)

\* a cell of one of the eight filled columns
C8FilledCell(a, b) ==
  /\ b.k = "str" /\ b.s \notin MissingTexts
  /\ IF IsNull(a) \/ \E m \in MissingTexts : IsTrimOf(m, a.s)
     THEN b.s = TxtUnknown
     ELSE IsTrimOf(b.s, a.s)

\* a cell of case_month: text, trimmed, and nothing else
C8MonthCell(a, b) ==
  /\ b.k = "str"
  /\ IF IsNull(a) THEN b.s \in {TxtNone, TxtNan} ELSE IsTrimOf(b.s, a.s)

C8CellsAmended(ra, rb) ==
  /\ \A c \in C8FilledCols : C8FilledCell(ra[c], rb[c])
  /\ C8MonthCell(ra["case_month"], rb["case_month"])

\* C8 amended: after clean_df no cell of the eight columns age_group, sex,
\* race, ethnicity, death_yn, hosp_yn, icu_yn, medcond_yn is null, "",
\* "None" or "nan": a cell that is absent or whose trimmed text is "",
\* "None" or "nan" is "Unknown", every other cell is its trimmed value.
\* case_month is only turned into text and trimmed: an absent case_month
\* becomes the text "None" or "nan", a blank one stays "".
C8_FilledColumnsHaveNoMissing ==
  pc = "curate" =>
    /\ \A i \in 1..Len(df_clean) : \E j \in 1..Len(df_raw_from_pg) :
         C8CellsAmended(df_raw_from_pg[j], df_clean[i])
    /\ \A j \in 1..Len(df_raw_from_pg) : \E i \in 1..Len(df_clean) :
         C8CellsAmended(df_raw_from_pg[j], df_clean[i])

C8_Witness ==
  /\ pc = "curate"
  /\ Len(df_clean) = 2
  /\ df_raw_from_pg[1]["case_month"] = None
  /\ df_clean[1]["case_month"] = Str(TxtNone)
  /\ df_raw_from_pg[2]["medcond_yn"] = T(<<" ", "n", "a", "n", " ">>)
  /\ df_clean[2]["medcond_yn"] = Str(TxtUnknown)

\* ---------------------------------------------------------------------- C9
\* C9: in every iteration the rows read back from the raw store are exactly
\* the rows landed in that iteration, the last fetched_count rows of the raw
\* table: none is missing, and no row of an earlier page or of an earlier
\* run is among them.
C9_ReadBackIsThePageLanded ==
  pc \in {"clean", "curate", "advance", "short_check"} =>
    /\ Len(df_raw_from_pg) = fetched_count
    /\ Len(raw) >= fetched_count
    /\ df_raw_from_pg
         = [i \in 1..fetched_count |-> raw[Len(raw) - fetched_count + i].row]
    /\ df_raw_from_pg = LastPageStored
    /\ \A i \in 1..fetched_count : raw[Len(raw) - fetched_count + i].tag = batch_ts
    /\ \A i \in 1..(Len(raw) - fetched_count) : raw[i].tag < batch_ts

C9_Witness ==
  /\ pc = "clean"
  /\ Cycles = 2
  /\ raw[1].tag = 0
  /\ \E i \in 1..(Len(raw) - fetched_count) :
       raw[i].tag > 0 /\ raw[i].row = df_raw_from_pg[1]
  /\ raw[1].row \in {df_raw_from_pg[i] : i \in 1..Len(df_raw_from_pg)}

\* --------------------------------------------------------------------- C10
\* C10: across a run, aborted or not, no row of the raw or of the curated
\* store is removed or changed: every step leaves each table a prefix of
\* what it becomes, and at an abort the pages fetched before it are all in
\* the raw store and their cleaned rows in the curated store.
C10_StoresOnlyGrow ==
  /\ [][IsPrefix(raw, raw') /\ IsPrefix(curated, curated')]_vars
  /\ [](pc = "aborted" =>
          /\ Len(RunLanded) = total_fetched
          /\ Len(curated) = (Len(raw) - Len(RunLanded)) + total_inserted)

C10_Witness ==
  /\ pc = "aborted"
  /\ total_inserted > 0
  /\ raw[1].tag = 0
  /\ Len(curated) = 1 + total_inserted

\* --------------------------------------------------------------------- C11
\* the number of records of the pages that the requests before the i-th
\* entry of the log were answered with
RECURSIVE FetchedBefore(_)
FetchedBefore(i) ==
  IF i <= 1 THEN 0
  ELSE FetchedBefore(i - 1)
         + (IF net[i - 1].ev = "get" /\ net[i - 1].resp.kind = "ok"
            THEN Len(net[i - 1].resp.body) ELSE 0)

\* C11: at every fetch the offset sent to the API is the sum of the record
\* counts of the pages fetched so far in the run, which is total_fetched:
\* the offset moves on by what was fetched, not by what was asked for.
C11_OffsetIsTotalFetched ==
  /\ \A i \in 1..Len(net) :
       net[i].ev \in {"call", "get"} => net[i].offset = FetchedBefore(i)
  /\ pc \in {"while", "request", "backoff", "retry"} => offset = total_fetched
  /\ pc \in {"request", "backoff", "retry"} => parameters.offset = total_fetched

C11_Witness ==
  /\ pc = "request"
  /\ Cycles = 3
  /\ offset = 4
  /\ page_size = 1

\* --------------------------------------------------------------------- C12
\* C12: without PG_URL get_engine ends the run with SystemExit before any
\* request is made and before any row is written to either table.
C12_NoConfigurationNoActivity ==
  /\ [](~pg_url =>
          /\ pc \in {"start", "exit"}
          /\ net = <<>> /\ out = <<>>
          /\ RunLanded = <<>>
          /\ Len(curated) = Len(raw) /\ Len(raw) <= 1
          /\ total_inserted = 0 /\ total_fetched = 0)
  /\ [](pc = "exit" <=> (~pg_url /\ error = SystemExit))
  /\ [][(~pg_url) => (UNCHANGED <<raw, curated, net>> /\ pc' = "exit")]_vars
  /\ [][(pc = "exit") => FALSE]_vars

C12_Witness == pc = "exit" /\ ~pg_url /\ error = SystemExit /\ Len(raw) = 1

\* --------------------------------------- transform_rows_to_df called alone
\* a record with none of the fields of KEEP_COLS
RecExtraOnly == [c \in {"county_fips_code"} |-> T(<<"x">>)]

\* records with one field each, one of them a JSON null
SampleRecords ==
  {RecA, RecB, RecExtraOnly, [c \in {"sex"} |-> None]}
    \cup {[c \in {col} |-> T(<<"N">>)] : col \in VariedCols}

RecordLists == UNION {[1..n -> SampleRecords] : n \in 0..MaxBatchLen}

\* transform_rows_to_df is about to be applied to a list of RecordLists
InitTransform ==
  /\ pc = "transform"
  /\ \E recs \in RecordLists : rows = Json(recs)
  /\ pg_url = TRUE
  /\ page_size = 1
  /\ max_records = 1
  /\ total_inserted = 0
  /\ offset = 0
  /\ total_fetched = 0
  /\ need = 0
  /\ parameters = [limit |-> 0, offset |-> 0]
  /\ fetched_count = 0
  /\ batch_ts = 0
  /\ df = <<>>
  /\ df_columns = <<>>
  /\ df_raw_from_pg = <<>>
  /\ df_clean = <<>>
  /\ raw = <<>>
  /\ curated = <<>>
  /\ now = 1
  /\ net = <<>>
  /\ error = NoError
  /\ out = <<>>

NextTransform == Transform

SpecTransform == InitTransform /\ [][NextTransform]_vars

\* --------------------------------------------------------------------- C13
\* the columns of the batch transform_rows_to_df returned, before the tag
C13Columns == SubSeq(df_columns, 1, Len(df_columns) - 1)

\* C13: for every list of records transform_rows_to_df returns a batch whose
\* columns are exactly KEEP_COLS, in that order, and with one row for each
\* record: no row for the empty list, every value of a record under its
\* column, and a column that no record has present and null in every row.
C13_FixedSchemaSameRowCount ==
  pc = "land" =>
    /\ C13Columns =
         <<"case_month", "cdc_case_earliest_dt", "res_state", "age_group",
           "sex", "race", "ethnicity", "death_yn", "hosp_yn", "icu_yn",
           "medcond_yn">>
    /\ C13Columns = KEEP_COLS
    /\ Len(df) = Len(rows.recs)
    /\ \A i \in 1..Len(df) :
         /\ DOMAIN df[i].row = SeqToSet(C13Columns)
         /\ \A c \in DOMAIN df[i].row :
              /\ c \in DOMAIN rows.recs[i] => df[i].row[c] = rows.recs[i][c]
              /\ c \notin DOMAIN rows.recs[i] => df[i].row[c].k \in {"none", "nan"}
              /\ (\A j \in 1..Len(rows.recs) : c \notin DOMAIN rows.recs[j])
                   => df[i].row[c] = None

C13_Witness ==
  /\ pc = "land"
  /\ Len(df) = 2
  /\ rows.recs[1] = RecExtraOnly
  /\ "race" \notin DOMAIN rows.recs[2]
  /\ df[1].row["race"] = None
  /\ df[1].row["sex"] = NaN

C13_WitnessEmpty == pc = "land" /\ rows.recs = <<>> /\ df = <<>>

\* --------------------------------------------------------------------- C14
\* two input rows are equal across all columns, a missing value being equal
\* to a missing value
C14Equal(r1, r2) ==
  \A c \in DOMAIN r1 : (IsNull(r1[c]) /\ IsNull(r2[c])) \/ r1[c] = r2[c]

\* the input rows that no earlier input row equals
C14Firsts ==
  {j \in 1..Len(df_raw_from_pg) :
     \A k \in 1..(j - 1) : ~C14Equal(df_raw_from_pg[k], df_raw_from_pg[j])}

C14Rank(j) == Cardinality({k \in C14Firsts : k <= j})

\* C14: clean_df removes exact duplicates: equal input rows appear once in
\* the output and every distinct input row has exactly one output row, the
\* cleaned first row of its kind, in the order of the input; two identical
\* rows yield one row.
C14_DuplicatesRemoved ==
  pc = "curate" =>
    /\ Len(df_clean) = Cardinality(C14Firsts)
    /\ \A j \in C14Firsts :
         C8CellsAmended(df_raw_from_pg[j], df_clean[C14Rank(j)])
    /\ (Len(df_raw_from_pg) = 2 /\ df_raw_from_pg[1] = df_raw_from_pg[2])
         => Len(df_clean) = 1

C14_Witness ==
  /\ pc = "curate"
  /\ Len(df_raw_from_pg) = 2
  /\ df_raw_from_pg[1] = df_raw_from_pg[2]
  /\ df_raw_from_pg[1]["age_group"] = T(<<>>)
  /\ Len(df_clean) = 1

\* --------------------------------------------------------------------- C20
\* C20 as stated: the batch returned by clean_df has no two rows that are
\* equal across all columns.
C20_AsStated ==
  pc = "curate" =>
    \A i, j \in 1..Len(df_clean) : i # j => df_clean[i] # df_clean[j]

\* an input row with every missing value written the same way
C20Key(r) == [c \in DOMAIN r |-> IF IsNull(r[c]) THEN None ELSE r[c]]

\* C20 amended: the batch returned by clean_df has one row for each distinct
\* input row (missing values of either kind compared as equal), so two of
\* its rows are equal only when they come from two input rows that differ;
\* input rows that differ only by surrounding whitespace, by the letter case
\* of the state, or by a blank, "None" or "nan" text against a missing value
\* are all kept and come out equal.
C20_OneRowPerDistinctInputRow ==
  pc = "curate" =>
    /\ Len(df_clean)
         = Cardinality({C20Key(df_raw_from_pg[j]) : j \in 1..Len(df_raw_from_pg)})
    /\ \A i, j \in 1..Len(df_clean) :
         (i # j /\ df_clean[i] = df_clean[j]) =>
           \E p, q \in 1..Len(df_raw_from_pg) :
             /\ C20Key(df_raw_from_pg[p]) # C20Key(df_raw_from_pg[q])
             /\ C8CellsAmended(df_raw_from_pg[p], df_clean[i])
             /\ C8CellsAmended(df_raw_from_pg[q], df_clean[j])

C20_Witness ==
  /\ pc = "curate"
  /\ Len(df_clean) = 2
  /\ df_clean[1] = df_clean[2]
  /\ df_raw_from_pg[1]["age_group"] = T(<<" ">>)
  /\ df_raw_from_pg[2]["age_group"] = None

\* --------------------------------------------------------------------- C15
\* the pages of this run that have rows in the raw table
PagesLanded ==
  Cardinality({raw[i].tag : i \in 1..Len(raw)} \ {0})

\* the pages of this run whose cleaned rows were appended to the curated table
PagesCurated == Len(SelectSeq(out, LAMBDA e : e.msg = "inserted"))

\* the rows of the raw table that carry the tag of the page in hand
C15PageInRaw == SelectSeq(raw, LAMBDA r : r.tag = batch_ts)

\* C15: a page is landed in the raw table before its cleaned rows are
\* appended to the curated table and one page is in flight at a time: the
\* pages curated are never more than the pages landed and at most one fewer,
\* and a run that aborts between the two leaves the page in the raw table
\* and not in the curated one.
C15_LandedBeforeCurated ==
  /\ [](PagesCurated <= PagesLanded /\ PagesLanded <= PagesCurated + 1)
  /\ [][(curated' # curated) =>
          (/\ raw' = raw
           /\ Len(C15PageInRaw) = fetched_count
           /\ fetched_count > 0
           /\ PagesLanded = PagesCurated + 1)]_vars
  /\ []((pc = "aborted" /\ error = DatabaseError
           /\ PagesLanded = PagesCurated + 1) =>
          (/\ Len(C15PageInRaw) = fetched_count
           /\ fetched_count > 0
           /\ Len(curated) = (Len(raw) - Len(RunLanded)) + total_inserted))

C15_Witness ==
  /\ pc = "aborted"
  /\ error = DatabaseError
  /\ PagesLanded = 2
  /\ PagesCurated = 1
  /\ Len(C15PageInRaw) = 2

\* --------------------------------------------------------------------- C16
\* the read-back of the page in hand returned no rows
C16EmptyPage == df_raw_from_pg = <<>> /\ rows.recs # <<>>

\* C16: when the read-back returned no rows the cleaned batch is empty, the
\* curated load is skipped and the curated table and total_inserted stay as
\* they are; the offset still moves on by the fetched count, which
\* total_fetched already counts, and the loop goes on to the next fetch
\* unless the page was short or max_records is reached.
C16_EmptyCleanedBatchSkipsCurate ==
  /\ [][(pc = "curate" /\ C16EmptyPage) =>
          (/\ df_clean = <<>>
           /\ curated' = curated
           /\ total_inserted' = total_inserted
           /\ pc' = "advance")]_vars
  /\ [][(pc = "advance" /\ C16EmptyPage) =>
          (/\ total_fetched = offset + Len(rows.recs)
           /\ offset' = offset + Len(rows.recs)
           /\ total_fetched' = total_fetched
           /\ pc' = "short_check")]_vars
  /\ [][(pc = "short_check" /\ C16EmptyPage) =>
          (pc' = IF Len(rows.recs) < need THEN "report" ELSE "while")]_vars
  /\ [][(pc = "while" /\ C16EmptyPage) =>
          (pc' = IF total_fetched < max_records THEN "request" ELSE "report")]_vars

C16_Witness ==
  /\ pc = "request"
  /\ Cycles = 2
  /\ C16EmptyPage
  /\ df_clean = <<>>
  /\ Len(RunLanded) = 2
  /\ total_inserted = 0
  /\ offset = 2

\* --------------------------------------------------------------------- C17
\* every page the API has returned so far has at most the records asked for
WithinLimit ==
  \A i \in 1..Len(net) :
    (net[i].ev = "get" /\ net[i].resp.kind = "ok")
      => Len(net[i].resp.body) <= net[i].limit

\* C17: provided every page has at most the requested limit of records,
\* total_fetched <= max_records in every state, and every fetch asks for
\* need = min(page_size, max_records - total_fetched) records, with
\* 1 <= need <= page_size.
C17_NeedWithinBounds ==
  WithinLimit =>
    /\ total_fetched <= max_records
    /\ \A i \in 1..Len(net) :
         net[i].ev \in {"call", "get"} =>
           LET left == max_records - FetchedBefore(i)
           IN /\ net[i].limit = IF page_size < left THEN page_size ELSE left
              /\ 1 <= net[i].limit
              /\ net[i].limit <= page_size
    /\ pc \in {"request", "backoff", "retry"} =>
         /\ need = parameters.limit
         /\ need = IF page_size < max_records - total_fetched
                   THEN page_size ELSE max_records - total_fetched

C17_Witness ==
  /\ WithinLimit
  /\ pc = "retry"
  /\ Cycles = 2
  /\ page_size = 2
  /\ max_records = 3
  /\ total_fetched = 2
  /\ need = 1

\* --------------------------------------------------------------------- C18
\* ceil(a / b)
CeilDiv(a, b) == (a + b - 1) \div b

\* C18: every run in which each fetch returns comes to an end, at the final
\* report or by an error that propagates, and provided every page has at
\* most the requested limit of records it has made at most
\* ceil(max_records / page_size) fetch cycles by then (the cycles only grow
\* in number, so the bound holds all along the run).
C18_RunTerminates ==
  <>(/\ pc \in {"done", "aborted", "exit"}
     /\ WithinLimit => Cycles <= CeilDiv(max_records, page_size))

C18_Witness ==
  /\ pc = "done"
  /\ WithinLimit
  /\ page_size = 2
  /\ max_records = 5
  /\ Cycles = CeilDiv(max_records, page_size)
  /\ total_fetched = max_records

\* --------------------------------------------------------------------- C19
\* the rows the run has appended to the curated table
C19Appended == Len(curated) - (Len(raw) - Len(RunLanded))

\* C19: the total reported on loop exit is the number of rows the run
\* appended to the curated table, and, every read-back returning the page
\* just landed, total_inserted <= total_fetched in every state.
C19_ReportedTotalIsRowsAppended ==
  /\ total_inserted = C19Appended
  /\ total_inserted <= total_fetched
  /\ pc = "done" =>
       out[Len(out)] = [msg |-> "process finished.Total inserted",
                        n |-> C19Appended]

C19_Witness ==
  /\ pc = "done"
  /\ total_fetched = 2
  /\ total_inserted = 1
  /\ Len(curated) = 2
  /\ out[Len(out)].n = 1

====
